---------------------------- MODULE Spec2Model ----------------------------
(***************************************************************************)
(* react-keenstore: the useStore() hook that binds a keenstore Store to a  *)
(* React component (src/index.ts).                                         *)
(*                                                                         *)
(* The module models the two useStore() functions of src/index.ts (the     *)
(* predicate-aware one, lines 9-32, and the boolean-only one, lines 53-69),*)
(* the Store they subscribe to (keenstore, through getState / setState /   *)
(* onUpdate) and the part of React's component life cycle the hooks rest   *)
(* on: a render runs the function body, the effect's cleanup and setup run *)
(* after the commit as steps of their own, an unmount runs the cleanup.    *)
(*                                                                         *)
(* JavaScript values are modelled by tags: the policy argument             *)
(* (boolean | function) is one of "true", "false" or the name of a         *)
(* predicate; a function object (a bound setter, a listener closure) is a  *)
(* record of the values it closes over plus, for setters, a serial number  *)
(* that makes each Function.prototype.bind result a reference of its own.  *)
(***************************************************************************)
EXTENDS Integers, Sequences, FiniteSets, TLC

(***************************************************************************)
(* Bounds of the model.                                                    *)
(***************************************************************************)
\* store.setState calls in one behaviour, over all stores
MaxUpdates == 2
\* renders the parents cause in one behaviour of the two-component
\* system (mounts included)
MaxRenders == 3
\* store.setState.bind(store) evaluations in one behaviour
MaxBinds == 3

(***************************************************************************)
(* The values the callers pass in.                                         *)
(***************************************************************************)
Stores == {"s1", "s2"}
\* a value that is not an instance of Store and has no getState method
NotAStore == "notAStore"
Handles == Stores \cup {NotAStore}
Comps == {"c1", "c2"}
\* the two functions named useStore in src/index.ts
Variants == {"useStore", "useStoreBool"}
\* isEven and isEvenToo are two function objects with one body
Predicates == {"isEven", "isEvenToo", "isGreater"}
Booleans == {"true", "false"}
Policies == Booleans \cup Predicates
\* the second argument left out
Undefined == "undefined"
PolicyArgs == Policies \cup {Undefined}
\* what a caller can pass as the second argument of each variant
PoliciesOf(v) == IF v = "useStore" THEN Policies ELSE Booleans
\* the same, or nothing
ArgsOf(v) == PoliciesOf(v) \cup {Undefined}
\* the React contexts of the application and the store each one provides
Contexts == {"AppContext", "OtherContext", "BrokenContext"}
ContextValue == [ctx \in Contexts |->
    CASE ctx = "AppContext" -> "s1"
      [] ctx = "OtherContext" -> "s2"
      [] OTHER -> NotAStore]
\* the argument of store.setState: the updater of the README's example,
\* prevState => ({counter: prevState.counter + 1})
Updaters == {"inc"}
\* two of the values Math.random() returns
RandVals == {0, 1}

VARIABLES
    storeState,   \* Store.state of each store: the README's counter
    listeners,    \* each store's registered update listeners, in order
    variant,      \* which of the two useStore functions the build exports
    pc,           \* life-cycle position of each component instance
    args,         \* (store, responsive) of the component's last render
    revision,     \* the useState(-1) cell
    dirty,        \* a re-render is scheduled by a changed revision
    memo,         \* the useMemo cell: its dependency and the bound setter
    cleanup,      \* what the last effect run returned
    binds,        \* bind() evaluations made so far
    renders,      \* renders the parents have caused so far
    ret,          \* what the last useStore call did and returned
    entry,        \* the hook call the component's last render made
    held,         \* a setter some caller took from a render and kept
    notice        \* what the last store.setState call did to each component

vars == <<storeState, listeners, variant, pc, args, revision,
          dirty, memo, cleanup, binds, renders, ret, entry, held, notice>>

storeVars == <<storeState, listeners>>
hookVars == <<pc, args, revision, dirty, memo, cleanup, binds>>
obsVars == <<notice>>

(***************************************************************************)
(* Values standing for "undefined".                                        *)
(***************************************************************************)
NoArgs == [store |-> "none", responsive |-> "none"]
NoCleanup == [store |-> "none", responsive |-> "none"]
NoSetter == [store |-> "none", owner |-> "none", id |-> 0]
NoMemo == [store |-> "none", setter |-> NoSetter]
\* req counts the setRevision calls and pred the predicate invocations the
\* call made for the component; store is the store that called the
\* component's listeners and nextState the state it called them with
NoNotice == [store |-> "none", nextState |-> 0, req |-> 0, pred |-> 0]
NoRet == [threw |-> FALSE, calls |-> <<>>, state |-> 0, setState |-> NoSetter]
NoRevision == -2
\* responsive is the second argument as the component wrote it
NoEntry == [hook |-> "none", responsive |-> "none"]

(***************************************************************************)
(* The Store (keenstore).                                                  *)
(***************************************************************************)
\* the value setState's argument produces from the previous state
ApplyUpdate(u, prev) == IF u = "inc" THEN prev + 1 ELSE prev

getState(s) == storeState[s]

\* onUpdate(listener): the listener is added after the ones registered
onUpdate(s, l) == [listeners EXCEPT ![s] = Append(@, l)]

RECURSIVE RemoveFirst(_, _)
RemoveFirst(q, l) ==
    IF q = <<>> THEN <<>>
    ELSE IF Head(q) = l THEN Tail(q)
    ELSE <<Head(q)>> \o RemoveFirst(Tail(q), l)

\* the function onUpdate returned: removes that listener; idempotent
unsubscribe(s, l) == [listeners EXCEPT ![s] = RemoveFirst(@, l)]

(***************************************************************************)
(* The caller's predicates (type IsResponsive).                            *)
(***************************************************************************)
Eval(p, nextState, prevState) ==
    CASE p \in {"isEven", "isEvenToo"} -> nextState % 2 = 0
      [] p = "isGreater" -> nextState > prevState
      [] OTHER -> FALSE

IsFunction(r) == r \in Predicates

(***************************************************************************)
(* useStore: the pieces of the function body.                              *)
(***************************************************************************)
InitialRevision == -1

\* store instanceof Store
IsStore(h) == h \in Stores

\* the boolean-only function imports Store as a type and checks nothing
ChecksInstance(v) == v = "useStore"

\* variation: one listener object shared by all component instances
ListenerAnonymous(c, r) == [comp |-> "c1", responsive |-> r]

\* the listener closure handed to store.onUpdate by component c
Listener(c, r) == [comp |-> c, responsive |-> r]

\* variation: the early return is missing
SubscribesAlways(r) == TRUE

\* the values of the policy for which !responsive is true
Falsy == {"false", Undefined}

\* if (!responsive) return;
Subscribes(r) == r \notin Falsy

\* variation: the result of store.onUpdate is not returned
EffectReturnNothing(s, r) == NoCleanup

\* return store.onUpdate(...): the effect hands React the unsubscribe
\* function of the listener it registered
EffectReturn(s, r) == [store |-> s, responsive |-> r]

\* variation: the listener of the boolean-only function, which asks nothing
ListenerAcceptsAlways(r, nextState, prevState) == TRUE

\* variation: only a predicate can accept
ListenerAcceptsFunctionOnly(r, nextState, prevState) ==
    IsFunction(r) /\ Eval(r, nextState, prevState)

\* variation: the predicate is given (prevState, nextState)
ListenerAcceptsSwapped(r, nextState, prevState) ==
    ~IsFunction(r) \/ Eval(r, prevState, nextState)

\* typeof responsive !== 'function' || responsive(nextState, prevState)
ListenerAccepts(r, nextState, prevState) ==
    ~IsFunction(r) \/ Eval(r, nextState, prevState)

\* variation: no useMemo, the setter is bound in every render
MemoAlways(c, h) == TRUE

\* what the listener of each useStore function does with an update: the
\* boolean-only one (lines 63-65) calls setRevision without a condition
ListenerCalls(v, r, nextState, prevState) ==
    IF v = "useStoreBool" THEN TRUE
    ELSE ListenerAccepts(r, nextState, prevState)

\* the listener invokes responsive(nextState, prevState)
ListenerAsks(v, r) == v = "useStore" /\ IsFunction(r)

\* variation: useMemo(..., [])
MemoOnMountOnly(c, h) == pc[c] = "unmounted"

\* useMemo(..., [store]): recomputed on mount and when store changed
MemoDepsChanged(c, h) == pc[c] = "unmounted" \/ memo[c].store # h

\* variation: the setter is bound to one fixed store
BindSetStateFixed(c, h) == [store |-> "s1", owner |-> c, id |-> binds + 1]

\* store.setState.bind(store): a new function object
BindSetState(c, h) == [store |-> h, owner |-> c, id |-> binds + 1]

\* variation: useEffect(..., [])
EffectOnMountOnly(c, h, r) == pc[c] = "unmounted"

\* variation: useEffect(..., [responsive])
EffectDepsPolicyOnly(c, h, r) ==
    pc[c] = "unmounted" \/ args[c].responsive # r

\* variation: useEffect(..., [store])
EffectDepsStoreOnly(c, h, r) ==
    pc[c] = "unmounted" \/ args[c].store # h

\* variation: the dependencies are compared by what the policy computes,
\* so that two functions with one body count as unchanged
EffectDepsBySemantics(c, h, r) ==
    LET SameBody(r1, r2) == r1 = r2 \/ {r1, r2} = {"isEven", "isEvenToo"}
    IN  pc[c] = "unmounted" \/ args[c].store # h
            \/ ~SameBody(args[c].responsive, r)

\* useEffect(..., [store, responsive]): run on mount and when a dep changed
EffectDepsChanged(c, h, r) ==
    pc[c] = "unmounted" \/ args[c] # [store |-> h, responsive |-> r]

\* variation: the state is read once per mount and kept
ReadStateCached(c, h) ==
    IF pc[c] = "unmounted" \/ ret[c].threw THEN getState(h) ELSE ret[c].state

\* let state = store.getState()
ReadState(c, h) == getState(h)


\* hook and store calls a useStore invocation makes before it returns
CallsOnReturn == <<"useState", "getState", "useMemo", "useEffect">>

\* hook calls a useStore invocation has made when it throws on a non-Store:
\* none when the instanceof check comes first; useState(-1) when the first
\* use of the handle is store.getState()
CallsBeforeThrow(v) == IF ChecksInstance(v) THEN <<>> ELSE <<"useState">>

RECURSIVE SumOver(_, _)
SumOver(f, S) ==
    IF S = {} THEN 0
    ELSE LET x == CHOOSE y \in S : TRUE IN f[x] + SumOver(f, S \ {x})

\* setState calls made so far: every call adds one to a counter
TotalUpdates == SumOver(storeState, Stores)

(***************************************************************************)
(* Initial state: stores constructed, no component mounted.                *)
(***************************************************************************)
Init ==
    /\ storeState = [s \in Stores |-> 0]
    /\ listeners = [s \in Stores |-> <<>>]
    /\ variant \in Variants
    /\ pc = [c \in Comps |-> "unmounted"]
    /\ args = [c \in Comps |-> NoArgs]
    /\ revision = [c \in Comps |-> NoRevision]
    /\ dirty = [c \in Comps |-> FALSE]
    /\ memo = [c \in Comps |-> NoMemo]
    /\ cleanup = [c \in Comps |-> NoCleanup]
    /\ binds = 0
    /\ renders = 0
    /\ ret = [c \in Comps |-> NoRet]
    /\ entry = [c \in Comps |-> NoEntry]
    /\ held = NoSetter
    /\ notice = [c \in Comps |-> NoNotice]

(***************************************************************************)
(* A render of component c: one call useStore(h, r).                       *)
(***************************************************************************)
\* the call throws: nothing but the call's own outcome changes
RenderThrows(c, h, r) ==
    /\ ~IsStore(h)
    /\ ret' = [ret EXCEPT ![c] = [threw |-> TRUE,
                                  calls |-> CallsBeforeThrow(variant),
                                  state |-> 0, setState |-> NoSetter]]
    /\ UNCHANGED <<storeVars, variant, hookVars, held, obsVars>>

\* the call returns [state, setState]
RenderOk(c, h, r) ==
    /\ IsStore(h)
    /\ LET recompute == MemoDepsChanged(c, h)
           setter == IF recompute THEN BindSetState(c, h) ELSE memo[c].setter
           effect == EffectDepsChanged(c, h, r)
       IN  /\ recompute => binds < MaxBinds
           /\ revision' = [revision EXCEPT ![c] =
                  IF pc[c] = "unmounted" THEN InitialRevision ELSE @]
           /\ memo' = [memo EXCEPT ![c] = [store |-> h, setter |-> setter]]
           /\ binds' = IF recompute THEN binds + 1 ELSE binds
           /\ args' = [args EXCEPT ![c] = [store |-> h, responsive |-> r]]
           /\ dirty' = [dirty EXCEPT ![c] = FALSE]
           /\ pc' = [pc EXCEPT ![c] =
                  IF ~effect THEN "idle"
                  ELSE IF cleanup[c] # NoCleanup THEN "cleanup"
                  ELSE "setup"]
           /\ ret' = [ret EXCEPT ![c] = [threw |-> FALSE,
                                         calls |-> CallsOnReturn,
                                         state |-> ReadState(c, h),
                                         setState |-> setter]]
    /\ UNCHANGED <<storeVars, variant, cleanup, held, obsVars>>

\* variation: the second parameter has no default value
DefaultNone(r) == r

\* responsive = true, subscribes = true: the default value of the second
\* parameter, taken when the argument is undefined
DefaultResponsive(r) == IF r = Undefined THEN "true" ELSE r

\* the call useStore(h, r) made by component c
useStore(c, h, r) ==
    LET responsive == DefaultResponsive(r)
    IN  RenderThrows(c, h, responsive) \/ RenderOk(c, h, responsive)

\* useContext(context): the value the context provides
useContext(ctx) == ContextValue[ctx]

\* the call useStoreContext(ctx, r) made by component c
useStoreContext(c, ctx, r) == useStore(c, useContext(ctx), r)

\* a render caused by the parent: first mount, new props or a plain re-render.
\* React flushes the pending effects of a render before the next one.
Render(c, h, r) ==
    /\ pc[c] \in {"unmounted", "idle"}
    /\ r \in ArgsOf(variant)
    /\ entry' = [entry EXCEPT ![c] = [hook |-> "useStore", responsive |-> r]]
    /\ useStore(c, h, r)

\* the same for a component that calls useStoreContext, which only the
\* module of lines 1-44 exports
RenderContext(c, ctx, r) ==
    /\ variant = "useStore"
    /\ pc[c] \in {"unmounted", "idle"}
    /\ r \in ArgsOf(variant)
    /\ entry' = [entry EXCEPT ![c] =
           [hook |-> "useStoreContext", responsive |-> r]]
    /\ useStoreContext(c, ctx, r)
    /\ UNCHANGED renders

\* the same, counted against MaxRenders
RenderCounted(c, h, r) ==
    /\ renders < MaxRenders
    /\ renders' = renders + 1
    /\ Render(c, h, r)

\* the same, not counted
RenderFree(c, h, r) ==
    /\ Render(c, h, r)
    /\ UNCHANGED renders

\* the re-render React schedules for a changed revision: same arguments
RenderScheduled(c) ==
    /\ pc[c] = "idle"
    /\ dirty[c]
    /\ RenderOk(c, args[c].store, args[c].responsive)
    /\ UNCHANGED <<renders, entry>>

\* the policy expression of the component evaluated again: a predicate
\* written inline (isEven, isEvenToo) is a new function object in every
\* render, a boolean or a function defined outside (isGreater) is the same
Fresh(r) ==
    CASE r = "isEven" -> "isEvenToo"
      [] r = "isEvenToo" -> "isEven"
      [] OTHER -> r

\* the re-render React schedules for a changed revision, in a component
\* that writes its predicate inline
RenderScheduledFresh(c) ==
    /\ pc[c] = "idle"
    /\ dirty[c]
    /\ RenderOk(c, args[c].store, Fresh(args[c].responsive))
    /\ entry' = [entry EXCEPT ![c].responsive = Fresh(@)]
    /\ UNCHANGED renders

(***************************************************************************)
(* The effect of useStore.                                                 *)
(***************************************************************************)
\* the previous effect's cleanup: the function store.onUpdate returned
RunCleanup(c) ==
    /\ pc[c] = "cleanup"
    /\ listeners' = unsubscribe(cleanup[c].store,
                                Listener(c, cleanup[c].responsive))
    /\ cleanup' = [cleanup EXCEPT ![c] = NoCleanup]
    /\ pc' = [pc EXCEPT ![c] = "setup"]
    /\ UNCHANGED <<storeState, variant, args, revision, dirty,
                   memo, binds, renders, ret, entry, held, obsVars>>

\* variation: the effect subscribes to one fixed store
EffectStoreFixed(c) == "s1"

\* the store the effect callback closes over: the one of the last render
EffectStore(c) == args[c].store

\* variation: the effect callback also calls setRevision
RunEffectRequests(c) ==
    /\ pc[c] = "setup"
    /\ dirty' = [dirty EXCEPT ![c] = TRUE]
    /\ IF Subscribes(args[c].responsive)
       THEN /\ listeners' = onUpdate(EffectStore(c),
                                     Listener(c, args[c].responsive))
            /\ cleanup' = [cleanup EXCEPT ![c] =
                   EffectReturn(EffectStore(c), args[c].responsive)]
       ELSE /\ listeners' = listeners
            /\ cleanup' = [cleanup EXCEPT ![c] = NoCleanup]
    /\ pc' = [pc EXCEPT ![c] = "idle"]
    /\ UNCHANGED <<storeState, variant, args, revision,
                   memo, binds, renders, ret, entry, held, obsVars>>

\* variation: the effect callback also writes the store's initial state
RunEffectWrites(c) ==
    /\ pc[c] = "setup"
    /\ storeState' = [storeState EXCEPT ![args[c].store] = 0]
    /\ IF Subscribes(args[c].responsive)
       THEN /\ listeners' = onUpdate(EffectStore(c),
                                     Listener(c, args[c].responsive))
            /\ cleanup' = [cleanup EXCEPT ![c] =
                   EffectReturn(EffectStore(c), args[c].responsive)]
       ELSE /\ listeners' = listeners
            /\ cleanup' = [cleanup EXCEPT ![c] = NoCleanup]
    /\ pc' = [pc EXCEPT ![c] = "idle"]
    /\ UNCHANGED <<variant, args, revision, dirty,
                   memo, binds, renders, ret, entry, held, obsVars>>

\* the effect callback with the store and responsive of the last render
RunEffect(c) ==
    /\ pc[c] = "setup"
    /\ IF Subscribes(args[c].responsive)
       THEN /\ listeners' = onUpdate(EffectStore(c),
                                     Listener(c, args[c].responsive))
            /\ cleanup' = [cleanup EXCEPT ![c] =
                   EffectReturn(EffectStore(c), args[c].responsive)]
       ELSE /\ listeners' = listeners
            /\ cleanup' = [cleanup EXCEPT ![c] = NoCleanup]
    /\ pc' = [pc EXCEPT ![c] = "idle"]
    /\ UNCHANGED <<storeState, variant, args, revision, dirty,
                   memo, binds, renders, ret, entry, held, obsVars>>

\* the component is removed: React runs the effect's cleanup and drops
\* the hook cells; values the component returned earlier stay with callers
Unmount(c) ==
    /\ pc[c] = "idle"
    /\ listeners' = IF cleanup[c] # NoCleanup
                    THEN unsubscribe(cleanup[c].store,
                                     Listener(c, cleanup[c].responsive))
                    ELSE listeners
    /\ cleanup' = [cleanup EXCEPT ![c] = NoCleanup]
    /\ pc' = [pc EXCEPT ![c] = "unmounted"]
    /\ args' = [args EXCEPT ![c] = NoArgs]
    /\ revision' = [revision EXCEPT ![c] = NoRevision]
    /\ dirty' = [dirty EXCEPT ![c] = FALSE]
    /\ memo' = [memo EXCEPT ![c] = NoMemo]
    /\ entry' = [entry EXCEPT ![c] = NoEntry]
    /\ UNCHANGED <<storeState, variant, binds, renders, ret, held, obsVars>>

(***************************************************************************)
(* store.setState(u): the store takes the new state and calls every        *)
(* listener with (nextState, prevState); each listener of useStore decides *)
(* and calls setRevision(Math.random()).                                   *)
(***************************************************************************)
\* variation: a listener skips the call while a re-render is scheduled
HitsCoalesced(c, s, nextState, prevState) ==
    IF dirty[c] THEN {}
    ELSE {i \in DOMAIN listeners[s] :
             /\ listeners[s][i].comp = c
             /\ ListenerCalls(variant, listeners[s][i].responsive,
                              nextState, prevState)}

\* listeners of component c on store s that call setRevision for this update
Hits(c, s, nextState, prevState) ==
    {i \in DOMAIN listeners[s] :
        /\ listeners[s][i].comp = c
        /\ ListenerCalls(variant, listeners[s][i].responsive,
                         nextState, prevState)}

\* listeners of component c on store s that invoke a predicate
PredicateRuns(c, s) ==
    {i \in DOMAIN listeners[s] :
        /\ listeners[s][i].comp = c
        /\ ListenerAsks(variant, listeners[s][i].responsive)}

\* listeners of component c on store s
ListenersOf(c, s) == {i \in DOMAIN listeners[s] : listeners[s][i].comp = c}

DoSetState(s, u) ==
    LET prevState == storeState[s]
        nextState == ApplyUpdate(u, prevState)
        hit(c) == Hits(c, s, nextState, prevState) # {}
        live(c) == hit(c) /\ pc[c] # "unmounted"
    IN  /\ TotalUpdates < MaxUpdates
        /\ storeState' = [storeState EXCEPT ![s] = nextState]
        /\ \E rnd \in [Comps -> RandVals] :
              /\ revision' = [c \in Comps |->
                     IF live(c) THEN rnd[c] ELSE revision[c]]
              /\ dirty' = [c \in Comps |->
                     dirty[c] \/ (live(c) /\ rnd[c] # revision[c])]
        /\ notice' = [c \in Comps |->
               IF ListenersOf(c, s) = {} THEN NoNotice
               ELSE [store |-> s, nextState |-> nextState,
                     req |-> Cardinality(Hits(c, s, nextState, prevState)),
                     pred |-> Cardinality(PredicateRuns(c, s))]]
        /\ UNCHANGED <<listeners, variant, pc, args, memo, cleanup, binds,
                       renders, ret, entry, held>>

\* any code holding the store calls store.setState(u)
StoreSetState(s, u) == DoSetState(s, u)

\* a caller invokes the setter the component's last useStore call returned
CallSetter(c, u) ==
    /\ ret[c].setState # NoSetter
    /\ DoSetState(ret[c].setState.store, u)

\* a caller keeps the setter the component's last useStore call returned,
\* for later renders to leave it behind
KeepSetter(c) ==
    /\ ret[c].setState # NoSetter
    /\ held # ret[c].setState
    /\ held' = ret[c].setState
    /\ UNCHANGED <<storeVars, variant, hookVars, renders, ret, entry, obsVars>>

\* the caller invokes the setter it kept: the bound function calls
\* setState on the store it was bound to
CallHeld(u) ==
    /\ held # NoSetter
    /\ DoSetState(held.store, u)

(***************************************************************************)
(* Spec: two component instances, a bounded number of parent renders.      *)
(* SpecSingle: one component instance, any number of renders.              *)
(* SpecSetter: the same with a caller that keeps a returned setter.        *)
(* SpecContext: the same for a component that calls useStoreContext.       *)
(* SpecLive: one component instance whose predicate is a new function in   *)
(* every render, with React's scheduling as fairness.                      *)
(***************************************************************************)
\* the policies the components of the two-component system pass, always
\* written out
PairPolicies == Booleans \cup {"isEven", "isGreater"}

Next ==
    \/ \E c \in Comps, h \in Handles, r \in PairPolicies :
           RenderCounted(c, h, r)
    \/ \E c \in Comps : RenderScheduled(c)
    \/ \E c \in Comps : RunCleanup(c)
    \/ \E c \in Comps : RunEffect(c)
    \/ \E c \in Comps : Unmount(c)
    \/ \E s \in Stores, u \in Updaters : StoreSetState(s, u)
    \/ \E c \in Comps, u \in Updaters : CallSetter(c, u)

Spec == Init /\ [][Next]_vars

Single == {"c1"}

NextSingle ==
    \/ \E c \in Single, h \in Handles, r \in Policies : RenderFree(c, h, r)
    \/ \E c \in Single : RenderScheduled(c)
    \/ \E c \in Single : RunCleanup(c)
    \/ \E c \in Single : RunEffect(c)
    \/ \E c \in Single : Unmount(c)
    \/ \E s \in Stores, u \in Updaters : StoreSetState(s, u)
    \/ \E c \in Single, u \in Updaters : CallSetter(c, u)

SpecSingle == Init /\ [][NextSingle]_vars

\* one component instance and a caller that keeps a setter it returned
NextSetter ==
    \/ \E c \in Single, h \in Handles, r \in Booleans : RenderFree(c, h, r)
    \/ \E c \in Single : RenderScheduled(c)
    \/ \E c \in Single : RunCleanup(c)
    \/ \E c \in Single : RunEffect(c)
    \/ \E c \in Single : Unmount(c)
    \/ \E s \in Stores, u \in Updaters : StoreSetState(s, u)
    \/ \E c \in Single, u \in Updaters : CallSetter(c, u)
    \/ \E c \in Single : KeepSetter(c)
    \/ \E u \in Updaters : CallHeld(u)

SpecSetter == Init /\ [][NextSetter]_vars

\* one component instance that writes its predicate inline, a bounded
\* number of parent renders; React runs the work it has scheduled
NextLive ==
    \/ \E c \in Single, h \in Handles, r \in Policies :
           RenderCounted(c, h, r)
    \/ \E c \in Single : RenderScheduledFresh(c)
    \/ \E c \in Single : RunCleanup(c)
    \/ \E c \in Single : RunEffect(c)
    \/ \E c \in Single : Unmount(c)
    \/ \E s \in Stores, u \in Updaters : StoreSetState(s, u)
    \/ \E c \in Single, u \in Updaters : CallSetter(c, u)

SpecLive ==
    /\ Init
    /\ [][NextLive]_vars
    /\ \A c \in Single :
           /\ WF_vars(RenderScheduledFresh(c))
           /\ WF_vars(RunCleanup(c))
           /\ WF_vars(RunEffect(c))

\* one component instance that calls useStoreContext, with or without a
\* policy argument
NextContext ==
    \/ \E c \in Single, ctx \in Contexts, r \in PolicyArgs :
           RenderContext(c, ctx, r)
    \/ \E c \in Single : RenderScheduled(c)
    \/ \E c \in Single : RunCleanup(c)
    \/ \E c \in Single : RunEffect(c)
    \/ \E c \in Single : Unmount(c)
    \/ \E s \in Stores, u \in Updaters : StoreSetState(s, u)
    \/ \E c \in Single, u \in Updaters : CallSetter(c, u)

SpecContext == Init /\ [][NextContext]_vars


(***************************************************************************)
(* Vocabulary of the properties.                                           *)
(***************************************************************************)
\* component c is mounted, its last render was useStore(s, r) and the
\* effect of that render has run: the binding is established
Bound(c, s, r) ==
    /\ pc[c] = "idle"
    /\ args[c] = [store |-> s, responsive |-> r]

\* this step is a store.setState call on s
Updated(s) == storeState'[s] # storeState[s]

\* listeners component c has registered, over all stores
ListenerCount(c) == SumOver([s \in Stores |-> Cardinality(ListenersOf(c, s))],
                            Stores)

(***************************************************************************)
(* C1: every store.setState call on s makes exactly one setRevision call   *)
(* for each mounted component whose binding to s with policy true is       *)
(* established.                                                            *)
(***************************************************************************)
C1_OneRequestPerUpdate ==
    [][\A c \in Comps, s \in Stores :
          (Bound(c, s, "true") /\ Updated(s)) => notice'[c].req = 1]_vars

\* a policy-true binding that has just been notified of its store's update
C1_Witness ==
    \E c \in Comps, s \in Stores :
        /\ Bound(c, s, "true")
        /\ notice[c].req = 1
        /\ notice[c].nextState = storeState[s]


\* the listener component c registers for policy r is on store s's list
Subscribed(c, s, r) ==
    \E i \in DOMAIN listeners[s] : listeners[s][i] = Listener(c, r)

(***************************************************************************)
(* C2: for a binding with predicate policy p whose subscription is active, *)
(* a store update makes a setRevision call if and only if                  *)
(* p(nextState, prevState) is true: one call when it is, none when not.    *)
(***************************************************************************)
C2_RequestIffPredicate ==
    [][\A c \in Comps, s \in Stores, p \in Predicates :
          (/\ args[c] = [store |-> s, responsive |-> p]
           /\ Subscribed(c, s, p)
           /\ Updated(s))
          => notice'[c].req =
                 IF Eval(p, storeState'[s], storeState[s]) THEN 1 ELSE 0]_vars

\* a subscribed predicate binding whose predicate has just rejected an update
C2_Witness ==
    \E c \in Comps, s \in Stores, p \in Predicates :
        /\ args[c] = [store |-> s, responsive |-> p]
        /\ Subscribed(c, s, p)
        /\ notice[c].pred = 1
        /\ notice[c].req = 0
        /\ notice[c].nextState = storeState[s]

(***************************************************************************)
(* C3: a binding with policy false has no listener on any store, no        *)
(* store.setState call makes a setRevision call for it, and its next       *)
(* render returns the state the store holds then.                          *)
(***************************************************************************)
C3_PolicyFalse ==
    /\ [](\A c \in Comps, s \in Stores :
             Bound(c, s, "false") => ListenerCount(c) = 0)
    /\ [][\A c \in Comps, s \in Stores :
             Bound(c, s, "false") =>
                 /\ \A s2 \in Stores : Updated(s2) => notice'[c].req = 0
                 /\ \A r \in Policies :
                        RenderOk(c, s, r) => ret'[c].state = storeState[s]]_vars

\* a policy-false binding that was not notified of the update of its store
\* and has read the new state in a later render
C3_Witness ==
    \E c \in Comps, s \in Stores :
        /\ Bound(c, s, "false")
        /\ storeState[s] > 0
        /\ notice[c].req = 0
        /\ revision[c] = InitialRevision
        /\ ~ret[c].threw
        /\ ret[c].state = storeState[s]

(***************************************************************************)
(* C4: an unmounted component has no listener and no cleanup left,         *)
(* whatever its policy was, and a store.setState call made while it is     *)
(* unmounted neither calls setRevision for it nor invokes its predicate.   *)
(***************************************************************************)
C4_UnmountUnsubscribes ==
    /\ [](\A c \in Comps :
             pc[c] = "unmounted" =>
                 ListenerCount(c) = 0 /\ cleanup[c] = NoCleanup)
    /\ [][\A c \in Comps, s \in Stores :
             (pc[c] = "unmounted" /\ Updated(s)) =>
                 notice'[c].req = 0 /\ notice'[c].pred = 0]_vars

\* an unmounted component whose last render returned the state of the first
\* update of its store and for which the second update made no call
C4_Witness ==
    \E c \in Comps :
        /\ pc[c] = "unmounted"
        /\ ret[c].setState # NoSetter
        /\ storeState[ret[c].setState.store] = MaxUpdates
        /\ ret[c].state = 1
        /\ notice[c] = NoNotice

(***************************************************************************)
(* C5: when the store of a mounted component changes between two renders,  *)
(* the cleanup removes its listener from the old store and, once the       *)
(* effect has run, its only listener is on the new store: updates of any   *)
(* other store make no setRevision call for it, updates of the new store   *)
(* do as the policy says.                                                  *)
(***************************************************************************)
C5_StoreChange ==
    /\ [](\A c \in Comps, s \in Stores, r \in Policies :
             (Bound(c, s, r) /\ r # "false") =>
                 /\ Subscribed(c, s, r)
                 /\ ListenerCount(c) = 1)
    /\ [][\A c \in Comps :
             /\ (RunCleanup(c) /\ cleanup[c].store # args[c].store)
                    => ListenerCount(c)' = 0
             /\ \A s \in Stores, r \in Policies :
                    (Bound(c, s, r) /\ r # "false") =>
                        /\ \A s1 \in Stores \ {s} :
                               Updated(s1) => notice'[c].req = 0
                        /\ Updated(s) => notice'[c].req =
                               IF ListenerAccepts(r, storeState'[s],
                                                  storeState[s])
                               THEN 1 ELSE 0]_vars

\* a component that got a request from s1, is now bound to s2, which was
\* never updated, and was not called for the last update of s1
C5_Witness ==
    \E c \in Comps :
        /\ Bound(c, "s2", "true")
        /\ Subscribed(c, "s2", "true")
        /\ revision[c] \in RandVals
        /\ storeState["s2"] = 0
        /\ storeState["s1"] = MaxUpdates
        /\ notice[c] = NoNotice

(***************************************************************************)
(* C6: every useStore call returns the state its store holds at the time   *)
(* of the call; a render scheduled by a setRevision call of the            *)
(* component's listener returns a state no older than the one that         *)
(* listener was called with.                                               *)
(***************************************************************************)
C6_SnapshotIsCurrent ==
    [][\A c \in Comps :
          /\ \A h \in Stores, r \in Policies :
                 RenderOk(c, h, r) => ret'[c].state = storeState'[h]
          /\ (/\ RenderScheduled(c)
              /\ notice[c].req > 0
              /\ notice[c].store = args[c].store)
                 => ret'[c].state >= notice[c].nextState]_vars

\* a component re-rendered after a request, holding the state of the update
C6_Witness ==
    \E c \in Comps, s \in Stores :
        /\ Bound(c, s, "true")
        /\ ~dirty[c]
        /\ notice[c].req = 1
        /\ notice[c].nextState = MaxUpdates
        /\ ret[c].state = MaxUpdates

(***************************************************************************)
(* C9: as long as the store passed to useStore is the one of the previous  *)
(* render of the same mounted component, the call returns the setter the   *)
(* previous call returned, whatever the policy argument and the store's    *)
(* updates in between.                                                     *)
(***************************************************************************)
C9_SetterStable ==
    [][\A c \in Comps, h \in Stores, r \in Policies :
          (/\ pc[c] # "unmounted"
           /\ ~ret[c].threw
           /\ args[c].store = h
           /\ RenderOk(c, h, r))
          => ret'[c].setState = ret[c].setState]_vars

\* a mounted component that had a truthy policy (it got a request), now has
\* policy false, has seen its store updated, and still returns the first
\* setter bound
C9_Witness ==
    \E c \in Comps, s \in Stores :
        /\ Bound(c, s, "false")
        /\ revision[c] \in RandVals
        /\ storeState[s] = MaxUpdates
        /\ ret[c].state = MaxUpdates
        /\ binds = 1
        /\ ret[c].setState = [store |-> s, owner |-> c, id |-> 1]


(***************************************************************************)
(* C7: no update is missed by a policy-true binding: once the effect of    *)
(* its last render has run and no re-render is scheduled, the snapshot the *)
(* component rendered is the state its store holds.                        *)
(***************************************************************************)
C7_NoMissedUpdate ==
    \A c \in Comps, s \in Stores :
        (Bound(c, s, "true") /\ ~dirty[c] /\ ~ret[c].threw)
            => ret[c].state = storeState[s]

(***************************************************************************)
(* C8: a useStore call on a value that is not a Store throws before it     *)
(* has made any hook or store call.                                        *)
(***************************************************************************)
C8_ThrowsBeforeHooks ==
    \A c \in Comps : ret[c].threw => ret[c].calls = <<>>

(***************************************************************************)
(* C10: two components bound to one store, one with policy true and one    *)
(* with policy false: when the setter either of them returned is called,   *)
(* the store takes the updated state, which is what both read from then    *)
(* on, one setRevision call is made for the policy-true component and      *)
(* none for the policy-false one.                                          *)
(***************************************************************************)
C10_TwoBindings ==
    [][\A c1 \in Comps, c2 \in Comps, s \in Stores, u \in Updaters :
          (/\ c1 # c2
           /\ Bound(c1, s, "true") /\ ~ret[c1].threw
           /\ Bound(c2, s, "false") /\ ~ret[c2].threw
           /\ CallSetter(c1, u) \/ CallSetter(c2, u))
          => /\ storeState'[s] = ApplyUpdate(u, storeState[s])
             /\ ReadState(c1, s)' = ReadState(c2, s)'
             /\ notice'[c1].req = 1
             /\ notice'[c2].req = 0]_vars

\* both components rendered the initial state, the store was updated once,
\* the policy-true one was called and has a re-render scheduled
C10_Witness ==
    \E c1 \in Comps, c2 \in Comps, s \in Stores :
        /\ c1 # c2
        /\ Bound(c1, s, "true") /\ ~ret[c1].threw
        /\ Bound(c2, s, "false") /\ ~ret[c2].threw
        /\ ret[c1].state = 0 /\ ret[c2].state = 0
        /\ storeState[s] = 1
        /\ notice[c1].req = 1
        /\ notice[c2] = NoNotice
        /\ dirty[c1] /\ ~dirty[c2]

(***************************************************************************)
(* C11: a component never has more than one listener registered, over all  *)
(* stores, and when its effect runs again the listener of the previous run *)
(* is gone before the new one is registered.                               *)
(***************************************************************************)
C11_AtMostOneListener ==
    /\ [](\A c \in Comps : ListenerCount(c) <= 1)
    /\ [][\A c \in Comps : RunEffect(c) => ListenerCount(c) = 0]_vars

\* a component that was called by s1's update while mounted, then changed
\* both its store and its policy, and has its one listener on s2
C11_Witness ==
    \E c \in Comps :
        /\ Bound(c, "s2", "isGreater")
        /\ Subscribed(c, "s2", "isGreater")
        /\ ListenerCount(c) = 1
        /\ revision[c] \in RandVals
        /\ storeState["s2"] = 0

(***************************************************************************)
(* C12: a render through useStoreContext(ctx, r) is the step the render    *)
(* useStore(s, r) is, s being the store the context provides: it leaves    *)
(* the same hook cells, the same pending effect and returns the same       *)
(* snapshot and setter, so that everything that follows is the same; with  *)
(* r left out, it is the step of useStore(s, true), and no binding ever    *)
(* holds an undefined policy.                                              *)
(***************************************************************************)
C12_ContextIsUseStore ==
    /\ [](\A c \in Comps : args[c].responsive # Undefined)
    /\ [][\A c \in Comps :
             \* the policy argument of the render, if this step is one
             LET r == entry'[c].responsive
                 rr == IF r = Undefined THEN "true" ELSE r
             IN  /\ RenderContext(c, "AppContext", r) => RenderOk(c, "s1", rr)
                 /\ RenderContext(c, "OtherContext", r) => RenderOk(c, "s2", rr)
                 /\ RenderContext(c, "BrokenContext", r) =>
                        RenderThrows(c, NotAStore, rr)]_vars

\* a component mounted through useStoreContext(OtherContext) without a
\* policy, subscribed to s2 as with policy true, called for s2's update
\* and re-rendered with the updated state
C12_Witness ==
    \E c \in Comps :
        /\ entry[c] = [hook |-> "useStoreContext", responsive |-> Undefined]
        /\ Bound(c, "s2", "true")
        /\ Subscribed(c, "s2", "true")
        /\ notice[c].req = 1
        /\ notice[c].store = "s2"
        /\ ~dirty[c]
        /\ ret[c].state = storeState["s2"]
        /\ storeState["s2"] = 1

(***************************************************************************)
(* C13: a mount, re-render, change of store or policy, effect run or       *)
(* unmount of one component leaves the listeners, the cleanup, the         *)
(* revision and every other hook cell of each other component as they      *)
(* were, whatever stores the two are bound to.                             *)
(***************************************************************************)
\* the listeners of component c on store s, in the store's order
ListenerSeq(c, s) == SelectSeq(listeners[s], LAMBDA l : l.comp = c)

\* the hook cells of component c
Cells(c) == <<cleanup[c], revision[c], dirty[c], args[c], memo[c], pc[c]>>

\* this step changes the listeners or a hook cell of component c
BindingChanged(c) ==
    \/ Cells(c)' # Cells(c)
    \/ /\ listeners' # listeners
       /\ \E s \in Stores : ListenerSeq(c, s)' # ListenerSeq(c, s)

\* this step is a step of component c's life cycle; a render leaves the
\* policy argument it was called with in entry
ActsOn(c) ==
    \/ \E h \in Handles : Render(c, h, entry'[c].responsive)
    \/ \E ctx \in Contexts : RenderContext(c, ctx, entry'[c].responsive)
    \/ RenderScheduled(c)
    \/ RunCleanup(c)
    \/ RunEffect(c)
    \/ Unmount(c)

C13_Independent ==
    [][\A c \in Comps, other \in Comps :
          (c # other /\ BindingChanged(other)) => ~ActsOn(c)]_vars

\* two components on one store: one was called by the store's update, then
\* changed its policy to false and lost its listener; the other keeps its
\* listener and the revision that update gave it
C13_Witness ==
    \E c \in Comps, other \in Comps, s \in Stores :
        /\ c # other
        /\ Bound(c, s, "false")
        /\ revision[c] \in RandVals
        /\ Bound(other, s, "true")
        /\ revision[other] \in RandVals
        /\ listeners[s] = <<Listener(other, "true")>>
        /\ storeState[s] = 1
        /\ \A s2 \in Stores \ {s} : storeState[s2] = 0

(***************************************************************************)
(* C14: a store.setState call on store A makes setRevision calls only for  *)
(* components with a listener on A; for a component bound to another       *)
(* store B it makes no setRevision call and no predicate invocation.       *)
(***************************************************************************)
C14_OnlySubscribers ==
    [][\A c \in Comps, sA \in Stores :
          Updated(sA) =>
              /\ notice'[c].req > 0 => ListenersOf(c, sA) # {}
              /\ \A sB \in Stores \ {sA}, r \in Policies :
                     Bound(c, sB, r) =>
                         /\ notice'[c].req = 0
                         /\ notice'[c].pred = 0
                         /\ revision'[c] = revision[c]
                         /\ dirty'[c] = dirty[c]]_vars

\* one component on s1 with policy true, one on s2 with a predicate that
\* accepts every increment: s1 was updated, the first was called, the
\* second was not
C14_Witness ==
    \E c \in Comps, other \in Comps :
        /\ c # other
        /\ Bound(c, "s1", "true") /\ Subscribed(c, "s1", "true")
        /\ Bound(other, "s2", "isGreater")
        /\ Subscribed(other, "s2", "isGreater")
        /\ storeState["s1"] = 1 /\ storeState["s2"] = 0
        /\ notice[c].req = 1
        /\ notice[other] = NoNotice
        /\ revision[other] = InitialRevision
        /\ ~dirty[other]

(***************************************************************************)
(* C15: the setter a component returned is bound to the component's store  *)
(* and stays with its callers when the component unmounts; called then, it *)
(* updates that store and makes no setRevision call and no change to the   *)
(* hook cells of the unmounted component; the first render of a component  *)
(* mounted later returns the state its store holds then.                   *)
(***************************************************************************)
C15_SetterOutlivesComponent ==
    /\ [](\A c \in Comps, s \in Stores, r \in Policies :
             (Bound(c, s, r) /\ ~ret[c].threw) => ret[c].setState.store = s)
    /\ [](\A c \in Comps :
             (/\ pc[c] = "unmounted"
              /\ ret[c].setState # NoSetter
              /\ TotalUpdates < MaxUpdates)
                 => \A u \in Updaters : ENABLED CallSetter(c, u))
    /\ [][\A c \in Comps :
             /\ Unmount(c) => ret'[c] = ret[c]
             /\ \A u \in Updaters :
                    (pc[c] = "unmounted" /\ CallSetter(c, u)) =>
                        LET s == ret[c].setState.store
                        IN  /\ storeState'[s] = ApplyUpdate(u, storeState[s])
                            /\ notice'[c].req = 0
                            /\ revision'[c] = revision[c]
                            /\ dirty'[c] = dirty[c]
                            /\ pc'[c] = "unmounted"
             /\ \A s \in Stores, r \in Policies :
                    (pc[c] = "unmounted" /\ RenderOk(c, s, r)) =>
                        ret'[c].state = storeState[s]]_vars

\* a component in its second mount on s1 (the setter is the second one
\* bound) that no update has called and whose first render returned the
\* state of both updates of s1
C15_Witness ==
    \E c \in Comps :
        /\ pc[c] = "setup"
        /\ args[c].store = "s1"
        /\ binds = 2
        /\ ret[c].setState = [store |-> "s1", owner |-> c, id |-> 2]
        /\ revision[c] = InitialRevision
        /\ notice[c] = NoNotice
        /\ storeState["s1"] = MaxUpdates
        /\ storeState["s2"] = 0
        /\ ret[c].state = MaxUpdates

(***************************************************************************)
(* C16: every store update the policy of a subscribed component accepts    *)
(* makes exactly one setRevision call for it, whether or not a re-render   *)
(* is already scheduled and whatever was rendered since the last update.   *)
(***************************************************************************)
C16_NoCoalescing ==
    [][\A c \in Comps, s \in Stores, r \in Policies :
          (/\ args[c] = [store |-> s, responsive |-> r]
           /\ Subscribed(c, s, r)
           /\ Updated(s)
           /\ ListenerCalls(variant, r, storeState'[s], storeState[s]))
          => notice'[c].req = 1]_vars

\* a subscribed component that rendered the initial state and was called
\* for the second update of its store with no render since
C16_Witness ==
    \E c \in Comps, s \in Stores :
        /\ Bound(c, s, "isGreater")
        /\ Subscribed(c, s, "isGreater")
        /\ ret[c].state = 0
        /\ storeState[s] = 2
        /\ notice[c].req = 1
        /\ notice[c].nextState = 2
        /\ dirty[c]

(***************************************************************************)
(* C17: a re-render of a mounted component that changes the policy from a  *)
(* truthy one to false schedules the effect; its cleanup removes the       *)
(* listener and the effect registers none. A re-render that changes it     *)
(* from false to a truthy one schedules the effect, which registers the    *)
(* one listener. Both renders return the store's state and the setter of   *)
(* the render before.                                                      *)
(***************************************************************************)
C17_PolicyToggle ==
    [][\A c \in Comps, s \in Stores :
          /\ \A r \in Policies \ {"false"} :
                 /\ (Bound(c, s, r) /\ ~ret[c].threw /\ RenderOk(c, s, "false"))
                        => /\ pc'[c] = "cleanup"
                           /\ ret'[c].state = storeState[s]
                           /\ ret'[c].setState = ret[c].setState
                 /\ (Bound(c, s, "false") /\ ~ret[c].threw /\ RenderOk(c, s, r))
                        => /\ pc'[c] = "setup"
                           /\ ret'[c].state = storeState[s]
                           /\ ret'[c].setState = ret[c].setState
                 /\ (args[c] = [store |-> s, responsive |-> r] /\ RunEffect(c))
                        => /\ Subscribed(c, s, r)'
                           /\ ListenerCount(c)' = 1
          /\ (args[c] = [store |-> s, responsive |-> "false"] /\ RunCleanup(c))
                 => ListenerCount(c)' = 0
          /\ (args[c] = [store |-> s, responsive |-> "false"] /\ RunEffect(c))
                 => /\ ListenerCount(c)' = 0
                    /\ cleanup'[c] = NoCleanup]_vars

\* a component, mounted once on one store, that was called for the first
\* update, then changed its policy to false, has no listener left, was not
\* called for the second update and returned its state in a later render
C17_Witness ==
    \E c \in Comps, s \in Stores :
        /\ Bound(c, s, "false")
        /\ ListenerCount(c) = 0
        /\ cleanup[c] = NoCleanup
        /\ revision[c] \in RandVals
        /\ notice[c] = NoNotice
        /\ binds = 1
        /\ storeState[s] = MaxUpdates
        /\ \A s2 \in Stores \ {s} : storeState[s2] = 0
        /\ ret[c].state = MaxUpdates
        /\ ret[c].setState = [store |-> s, owner |-> c, id |-> 1]

(***************************************************************************)
(* C18: a re-render that passes another predicate, even one with the same  *)
(* body, schedules the effect; once the effect has run, the component's    *)
(* only listener is the one that holds the new predicate, and each update  *)
(* of the store invokes one predicate, the new one, whose result decides.  *)
(***************************************************************************)
C18_NoStalePredicate ==
    /\ [](\A c \in Comps, s \in Stores, p2 \in Predicates :
             Bound(c, s, p2) =>
                 /\ ListenerSeq(c, s) = <<Listener(c, p2)>>
                 /\ ListenerCount(c) = 1)
    /\ [][\A c \in Comps, s \in Stores, p2 \in Predicates :
             /\ \A p1 \in Predicates \ {p2} :
                    (Bound(c, s, p1) /\ RenderOk(c, s, p2)) => pc'[c] = "cleanup"
             /\ (Bound(c, s, p2) /\ Updated(s)) =>
                    /\ notice'[c].pred = 1
                    /\ notice'[c].req =
                           IF Eval(p2, storeState'[s], storeState[s])
                           THEN 1 ELSE 0]_vars

\* a component, mounted once on one store, that was called for the first
\* update under another policy, now holds isEven, whose listener is its
\* only one, and was called for the second update, which isEven accepted
C18_Witness ==
    \E c \in Comps, s \in Stores :
        /\ Bound(c, s, "isEven")
        /\ ListenerSeq(c, s) = <<Listener(c, "isEven")>>
        /\ binds = 1
        /\ ret[c].state = 1
        /\ storeState[s] = 2
        /\ \A s2 \in Stores \ {s} : storeState[s2] = 0
        /\ notice[c].pred = 1
        /\ notice[c].req = 1
        /\ notice[c].nextState = 2

(***************************************************************************)
(* C19: each update of the store of a subscribed component with a          *)
(* predicate policy invokes the predicate once, with the state after and   *)
(* the state before that update, and its result decides the setRevision    *)
(* call; no predicate is invoked for a boolean policy, and none by a       *)
(* render, an effect run, a cleanup or an unmount.                         *)
(***************************************************************************)
C19_PredicateCalls ==
    [][\A c \in Comps, s \in Stores :
          /\ \A p \in Predicates :
                 (/\ args[c] = [store |-> s, responsive |-> p]
                  /\ Subscribed(c, s, p)
                  /\ Updated(s))
                 => /\ notice'[c].pred = 1
                    /\ notice'[c].store = s
                    /\ notice'[c].nextState = storeState'[s]
                    /\ notice'[c].req =
                           IF Eval(p, storeState'[s], storeState[s])
                           THEN 1 ELSE 0
          /\ \A b \in Booleans, s2 \in Stores :
                 (Bound(c, s, b) /\ Updated(s2)) => notice'[c].pred = 0
          /\ (\A s2 \in Stores : ~Updated(s2)) => notice'[c] = notice[c]]_vars

\* a component with policy isGreater that rendered the state of the first
\* update and whose predicate was invoked once for the second and accepted
C19_Witness ==
    \E c \in Comps, s \in Stores :
        /\ args[c] = [store |-> s, responsive |-> "isGreater"]
        /\ Subscribed(c, s, "isGreater")
        /\ ret[c].state = 1
        /\ storeState[s] = 2
        /\ notice[c] = [store |-> s, nextState |-> 2, req |-> 1, pred |-> 1]

(***************************************************************************)
(* C20: every setRevision call made for a mounted component changes its    *)
(* revision.                                                               *)
(***************************************************************************)
C20_TokenAlwaysChanges ==
    [][\A c \in Comps :
          (/\ pc[c] # "unmounted"
           /\ \E s \in Stores : Updated(s)
           /\ notice'[c].req > 0)
          => revision'[c] # revision[c]]_vars

(***************************************************************************)
(* C21: a render, an effect run, a cleanup and an unmount leave the state  *)
(* of every store as it was; a step that changes a store's state is one    *)
(* store.setState call, made directly or through a returned setter, and    *)
(* it changes that store by its one update and no other store, whatever    *)
(* listeners it notifies.                                                  *)
(***************************************************************************)
C21_AdapterNeverWrites ==
    [][/\ \A c \in Comps : ActsOn(c) => storeState' = storeState
       /\ \A s \in Stores :
              Updated(s) =>
                  /\ \/ \E u \in Updaters : StoreSetState(s, u)
                     \/ \E c \in Comps, u \in Updaters : CallSetter(c, u)
                  /\ \E u \in Updaters :
                         storeState'[s] = ApplyUpdate(u, storeState[s])
                  /\ \A s2 \in Stores \ {s} :
                         storeState'[s2] = storeState[s2]]_vars

\* a component that mounted, subscribed, was notified of the one update
\* made and re-rendered: the store holds the state of that one update
C21_Witness ==
    \E c \in Comps, s \in Stores :
        /\ Bound(c, s, "true")
        /\ Subscribed(c, s, "true")
        /\ notice[c] = [store |-> s, nextState |-> 1, req |-> 1, pred |-> 0]
        /\ ~dirty[c]
        /\ ret[c].state = 1
        /\ storeState[s] = 1
        /\ \A s2 \in Stores \ {s} : storeState[s2] = 0

(***************************************************************************)
(* C22: whenever no effect is pending, the listeners on each store are     *)
(* exactly the listeners of the mounted components whose last render       *)
(* passed that store and a truthy policy, one for each; when every         *)
(* component is unmounted, no store has a listener.                        *)
(***************************************************************************)
\* no component has a cleanup or an effect run pending
EffectsCommitted == \A c \in Comps : pc[c] \in {"idle", "unmounted"}

\* the listeners of the mounted components bound to s with a truthy policy
BoundListeners(s) ==
    {Listener(c, args[c].responsive) : c \in
        {c \in Comps : /\ pc[c] = "idle"
                       /\ args[c].store = s
                       /\ Subscribes(args[c].responsive)}}

C22_NoListenerLeak ==
    /\ EffectsCommitted =>
           \A s \in Stores :
               /\ {listeners[s][i] : i \in DOMAIN listeners[s]}
                      = BoundListeners(s)
               /\ Len(listeners[s]) = Cardinality(BoundListeners(s))
    /\ (\A c \in Comps : pc[c] = "unmounted") =>
           \A s \in Stores : listeners[s] = <<>>

\* two components that each had a listener called by the last update, both
\* unmounted since: no store has a listener
C22_Witness ==
    /\ \A c \in Comps :
           /\ pc[c] = "unmounted"
           /\ notice[c].req = 1
    /\ \A s \in Stores : listeners[s] = <<>>

(***************************************************************************)
(* C23: the setter a useStore call returns is bound to the store passed to *)
(* that call. A render that passes another store than the render before    *)
(* returns another setter; a call of the setter last returned updates the  *)
(* store last passed and no other; a call of a setter kept from an earlier *)
(* render updates the store of that render and no other.                   *)
(***************************************************************************)
C23_SetterWritesItsStore ==
    [][\A c \in Comps :
          /\ \A h \in Stores, r \in Policies :
                 RenderOk(c, h, r) =>
                     /\ ret'[c].setState.store = h
                     /\ (/\ pc[c] # "unmounted"
                         /\ ~ret[c].threw
                         /\ args[c].store # h)
                            => /\ ret'[c].setState # ret[c].setState
                               /\ ret'[c].setState # held
          /\ \A u \in Updaters, s \in Stores :
                 /\ (Bound(c, s, args[c].responsive) /\ ~ret[c].threw
                        /\ CallSetter(c, u))
                        => /\ storeState'[s] = ApplyUpdate(u, storeState[s])
                           /\ \A s2 \in Stores \ {s} :
                                  storeState'[s2] = storeState[s2]
                 /\ (held.store = s /\ CallHeld(u))
                        => /\ storeState'[s] = ApplyUpdate(u, storeState[s])
                           /\ \A s2 \in Stores \ {s} :
                                  storeState'[s2] = storeState[s2]]_vars

\* a caller holds the first setter of a component, bound to s1; the
\* component, in the same mount, is now bound to s2 and returned another
\* setter, bound to s2; each store got one update, s2's after the change
C23_Witness ==
    \E c \in Comps :
        /\ held = [store |-> "s1", owner |-> c, id |-> 1]
        /\ Bound(c, "s2", "true")
        /\ binds = 2
        /\ memo[c].setter = [store |-> "s2", owner |-> c, id |-> 2]
        /\ ret[c].setState = memo[c].setter
        /\ revision[c] \in RandVals
        /\ notice[c].store = "s2"
        /\ storeState["s1"] = 1
        /\ storeState["s2"] = 1

(***************************************************************************)
(* C24: a render, a cleanup, an effect run and an unmount make no          *)
(* setRevision call: they schedule no re-render and leave the revision of  *)
(* a mounted component as it was. Hence, the parents' renders and the      *)
(* setState calls being finitely many, every component comes to rest with  *)
(* no effect and no re-render pending, also when each re-render passes a   *)
(* new predicate and the subscription is made again.                       *)
(***************************************************************************)
\* component c has no cleanup, effect run or re-render pending
AtRest(c) == pc[c] \in {"idle", "unmounted"} /\ ~dirty[c]

C24_NoRenderLoop ==
    /\ [][\A c \in Comps :
             (\/ \E h \in Handles : Render(c, h, entry'[c].responsive)
              \/ RenderScheduledFresh(c)
              \/ RunCleanup(c)
              \/ RunEffect(c)
              \/ Unmount(c))
             => /\ notice' = notice
                /\ dirty'[c] => dirty[c]
                /\ (pc[c] # "unmounted" /\ pc'[c] # "unmounted")
                       => revision'[c] = revision[c]]_vars
    /\ <>[](\A c \in Comps : AtRest(c))

\* a component mounted with isEven by its only parent render, called for
\* the update to 2, re-rendered with the new function isEvenToo, whose
\* listener replaced the first one: at rest
C24_Witness ==
    \E c \in Comps, s \in Stores :
        /\ renders = 1
        /\ Bound(c, s, "isEvenToo")
        /\ ListenerSeq(c, s) = <<Listener(c, "isEvenToo")>>
        /\ AtRest(c)
        /\ ret[c].state = 2
        /\ notice[c] = [store |-> s, nextState |-> 2, req |-> 1, pred |-> 1]

(***************************************************************************)
(* C25: with a Store and a boolean policy, each step of one useStore       *)
(* function is the step the other one makes from the same state: both      *)
(* accept the call and make the same hook calls, the render returns the    *)
(* store's state and the setter memoized for the store, the effect is      *)
(* scheduled and subscribes by the same conditions, and for each update    *)
(* the listener of the other function would make the same setRevision      *)
(* calls and invoke no predicate either. Both starting from the same       *)
(* state, they stay together for every sequence of events.                 *)
(***************************************************************************)
\* the other of the two useStore functions
Other(v) == IF v = "useStore" THEN "useStoreBool" ELSE "useStore"

\* the listeners of c on s were all registered with a boolean policy
BooleanListeners(c, s) ==
    \A i \in ListenersOf(c, s) : listeners[s][i].responsive \in Booleans

C25_VariantsAgree ==
    [][\A c \in Comps, s \in Stores :
          /\ \A b \in Booleans :
                 (args[c].responsive \in Booleans \cup {"none"}
                     /\ RenderOk(c, s, b))
                 => /\ b \in ArgsOf(Other(variant))
                    /\ ret'[c].calls = CallsOnReturn
                    /\ ret'[c].state = storeState[s]
                    /\ ret'[c].setState.store = s
                    /\ (pc[c] # "unmounted" /\ args[c].store = s)
                           => ret'[c].setState = memo[c].setter
                    /\ pc'[c] =
                           IF pc[c] # "unmounted"
                                 /\ args[c] = [store |-> s, responsive |-> b]
                           THEN "idle"
                           ELSE IF cleanup[c] # NoCleanup THEN "cleanup"
                           ELSE "setup"
          /\ (args[c] = [store |-> s, responsive |-> "true"] /\ RunEffect(c))
                 => ListenerSeq(c, s)' = <<Listener(c, "true")>>
          /\ (args[c] = [store |-> s, responsive |-> "false"] /\ RunEffect(c))
                 => ListenerCount(c)' = 0
          /\ (Updated(s) /\ BooleanListeners(c, s))
                 => /\ notice'[c].req = Cardinality(
                           {i \in ListenersOf(c, s) :
                               ListenerCalls(Other(variant),
                                             listeners[s][i].responsive,
                                             storeState'[s], storeState[s])})
                    /\ notice'[c].pred = Cardinality(
                           {i \in ListenersOf(c, s) :
                               ListenerAsks(Other(variant),
                                            listeners[s][i].responsive)})
                    /\ notice'[c].pred = 0]_vars

\* a component of the boolean-only function with policy true that was
\* called for the second update of its store and re-rendered
C25_Witness ==
    \E c \in Comps, s \in Stores :
        /\ variant = "useStoreBool"
        /\ Bound(c, s, "true")
        /\ Subscribed(c, s, "true")
        /\ notice[c] = [store |-> s, nextState |-> 2, req |-> 1, pred |-> 0]
        /\ revision[c] \in RandVals
        /\ ~dirty[c]
        /\ ret[c].state = 2
        /\ storeState[s] = 2

=============================================================================
